---------------------------- MODULE Spec2Model ----------------------------
(***************************************************************************)
(* LinkedIn games tracker (src/app.py): the token grammar GAME_RE, the     *)
(* two extractors parse_messages and parse_conversation, merge_results,    *)
(* compute_scores and the duration helpers to_seconds / fmt_time.          *)
(*                                                                         *)
(* Text is a sequence of one-character strings.  Offsets are 1-based here  *)
(* (Python offset + 1); only their order matters to the code.  The two     *)
(* ordinal glyphs of the grammar, U+00BA and U+00B0, are written "ORD" and *)
(* "DEG"; every other character outside printable ASCII, tab, line feed    *)
(* and carriage return is written by its code point, "U+00A0".  The        *)
(* alphabet is printable ASCII, the 29 characters Python counts as         *)
(* whitespace, and the characters listed under Named below, which stand    *)
(* for the non-ASCII digits and cased letters.  Python's None is the       *)
(* absence of an element: an optional value is a sequence of length 0 or   *)
(* 1, and a null date is NoDate.                                           *)
(***************************************************************************)
EXTENDS Integers, Sequences, FiniteSets, TLC

VARIABLES
    pc,               \* which call has been made in the current run
    csv_df,           \* merge_results: primary table (from the CSV)
    manual_df,        \* merge_results: secondary table (from transcripts)
    results,          \* merge_results: returned table
    my_name,          \* compute_scores / parse_conversation: first name
    contact,          \* compute_scores / parse_conversation: second name
    scores,           \* compute_scores: returned dict, keyed by game
    text,             \* parse_conversation: pasted conversation
    speaker_markers,  \* parse_conversation: sorted (position, name) list
    records,          \* parse_conversation: returned records
    names_detected,   \* parse_conversation: returned flag
    df,               \* parse_messages: raw table
    parsed,           \* parse_messages: returned table
    minutes,          \* to_seconds: minutes text
    seconds,          \* to_seconds: seconds text
    total,            \* to_seconds: returned integer
    shown             \* fmt_time: returned text

vars == <<pc, csv_df, manual_df, results, my_name, contact, scores, text,
          speaker_markers, records, names_detected, df, parsed,
          minutes, seconds, total, shown>>

---------------------------------------------------------------------------
(* Characters *)

\* Printable ASCII in code point order, from the space (32) to "~" (126);
\* the grave accent is written "U+0060"
Ascii == <<" ", "!", "\"", "#", "$", "%", "&", "'", "(", ")", "*", "+", ",",
          "-", ".", "/", "0", "1", "2", "3", "4", "5", "6", "7", "8", "9",
          ":", ";", "<", "=", ">", "?", "@", "A", "B", "C", "D", "E", "F",
          "G", "H", "I", "J", "K", "L", "M", "N", "O", "P", "Q", "R", "S",
          "T", "U", "V", "W", "X", "Y", "Z", "[", "\\", "]", "^", "_", "U+0060",
          "a", "b", "c", "d", "e", "f", "g", "h", "i", "j", "k", "l", "m",
          "n", "o", "p", "q", "r", "s", "t", "u", "v", "w", "x", "y", "z",
          "{", "|", "}", "~">>

\* The other characters of the alphabet, with their code points
Named ==
    {<<"\t", 9>>, <<"\n", 10>>, <<"U+000B", 11>>, <<"U+000C", 12>>,
     <<"\r", 13>>, <<"U+001C", 28>>, <<"U+001D", 29>>, <<"U+001E", 30>>,
     <<"U+001F", 31>>, <<"U+0085", 133>>, <<"U+00A0", 160>>, <<"DEG", 176>>,
     <<"ORD", 186>>, <<"U+00C9", 201>>, <<"U+00E9", 233>>, <<"U+0131", 305>>,
     <<"U+017F", 383>>, <<"U+0663", 1635>>, <<"U+1680", 5760>>,
     <<"U+2000", 8192>>, <<"U+2001", 8193>>, <<"U+2002", 8194>>,
     <<"U+2003", 8195>>, <<"U+2004", 8196>>, <<"U+2005", 8197>>,
     <<"U+2006", 8198>>, <<"U+2007", 8199>>, <<"U+2008", 8200>>,
     <<"U+2009", 8201>>, <<"U+200A", 8202>>, <<"U+2028", 8232>>,
     <<"U+2029", 8233>>, <<"U+202F", 8239>>, <<"U+205F", 8287>>,
     <<"U+212A", 8490>>, <<"U+3000", 12288>>, <<"U+FF15", 65301>>}

DigitSeq == <<"0", "1", "2", "3", "4", "5", "6", "7", "8", "9">>

\* The digits 0 to 9
AsciiDigits == {DigitSeq[i] : i \in 1..10}

\* \d of the regular expressions (str patterns): every Unicode decimal
\* digit; U+0663 (ARABIC-INDIC DIGIT THREE) and U+FF15 (FULLWIDTH DIGIT
\* FIVE) stand for the ones outside ASCII
Digits == AsciiDigits \cup {"U+0663", "U+FF15"}

\* \s of the regular expressions and the characters str.strip() removes:
\* the characters for which str.isspace() holds
Whitespace ==
    {" ", "\t", "\n", "\r", "U+000B", "U+000C", "U+001C", "U+001D", "U+001E",
     "U+001F", "U+0085", "U+00A0", "U+1680", "U+2000", "U+2001", "U+2002",
     "U+2003", "U+2004", "U+2005", "U+2006", "U+2007", "U+2008", "U+2009",
     "U+200A", "U+2028", "U+2029", "U+202F", "U+205F", "U+3000"}

UpperSeq == <<"A", "B", "C", "D", "E", "F", "G", "H", "I", "J", "K", "L", "M",
              "N", "O", "P", "Q", "R", "S", "T", "U", "V", "W", "X", "Y", "Z">>

LowerSeq == <<"a", "b", "c", "d", "e", "f", "g", "h", "i", "j", "k", "l", "m",
              "n", "o", "p", "q", "r", "s", "t", "u", "v", "w", "x", "y", "z">>

\* str.lower() of one character: U+00C9 (E acute) to U+00E9, U+212A (KELVIN
\* SIGN) to k; U+017F (long s) and U+0131 (dotless i) are lower case already
Lower(c) ==
    IF \E i \in 1..26 : UpperSeq[i] = c
    THEN LowerSeq[CHOOSE i \in 1..26 : UpperSeq[i] = c]
    ELSE IF c = "U+00C9" THEN "U+00E9"
    ELSE IF c = "U+212A" THEN "k"
    ELSE c

\* re.IGNORECASE: two characters match when their lower-case forms are equal
\* or are one of the pairs the re module treats as equivalent (s and long s,
\* i and dotless i)
IgnoreCase(c) ==
    LET l == Lower(c)
    IN  IF l = "U+017F" THEN "s"
        ELSE IF l = "U+0131" THEN "i"
        ELSE l

\* ord(c)
CharCode(c) ==
    IF \E i \in 1..Len(Ascii) : Ascii[i] = c
    THEN 31 + (CHOOSE i \in 1..Len(Ascii) : Ascii[i] = c)
    ELSE (CHOOSE n \in Named : n[1] = c)[2]

\* Python's str < str: lexicographic by code point, a proper prefix first
RECURSIVE StrLess(_, _)
StrLess(a, b) ==
    IF b = <<>> THEN FALSE
    ELSE IF a = <<>> THEN TRUE
    ELSE IF CharCode(Head(a)) # CharCode(Head(b))
         THEN CharCode(Head(a)) < CharCode(Head(b))
    ELSE StrLess(Tail(a), Tail(b))

\* str.lower() of a string
LowerStr(s) == [i \in 1..Len(s) |-> Lower(s[i])]

\* str.strip(): leading and trailing whitespace removed
RECURSIVE LStrip(_)
LStrip(s) ==
    IF s # <<>> /\ Head(s) \in Whitespace THEN LStrip(Tail(s)) ELSE s

RECURSIVE RStrip(_)
RStrip(s) ==
    IF s # <<>> /\ s[Len(s)] \in Whitespace
    THEN RStrip(SubSeq(s, 1, Len(s) - 1))
    ELSE s

Strip(s) == RStrip(LStrip(s))

\* The value int() gives a decimal digit
DigitVal(c) ==
    IF c = "U+0663" THEN 3
    ELSE IF c = "U+FF15" THEN 5
    ELSE (CHOOSE i \in 1..10 : DigitSeq[i] = c) - 1

\* int(text) of a run of decimal digits
RECURSIVE ParseInt(_)
ParseInt(ds) ==
    IF ds = <<>> THEN 0
    ELSE 10 * ParseInt(SubSeq(ds, 1, Len(ds) - 1)) + DigitVal(ds[Len(ds)])

\* str(n) / format "d" of a non-negative integer
RECURSIVE IntStr(_)
IntStr(n) ==
    IF n < 10 THEN <<DigitSeq[n + 1]>>
    ELSE Append(IntStr(n \div 10), DigitSeq[(n % 10) + 1])

\* format "02d": zero-padded on the left to at least two characters
ZeroPad2Unpadded(n) == IntStr(n)

ZeroPad2(n) ==
    IF Len(IntStr(n)) < 2 THEN <<"0">> \o IntStr(n) ELSE IntStr(n)

---------------------------------------------------------------------------
(* Duration helpers *)

to_seconds(m, s) == ParseInt(m) * 60 + ParseInt(s)

fmt_time(total_seconds) ==
    IntStr(total_seconds \div 60) \o <<":">> \o ZeroPad2(total_seconds % 60)

---------------------------------------------------------------------------
(* Token grammar GAME_RE *)

GAMES == << <<"T", "a", "n", "g", "o">>,
            <<"Q", "u", "e", "e", "n", "s">>,
            <<"Z", "i", "p">>,
            <<"M", "i", "n", "i", " ", "S", "u", "d", "o", "k", "u">> >>

\* The alternation of GAME_RE, in its order
GameAlternation == <<GAMES[4], GAMES[1], GAMES[2], GAMES[3]>>

\* The literal lit occurs in t at i, ignoring case
LiteralAt(t, i, lit) ==
    /\ i + Len(lit) - 1 <= Len(t)
    /\ \A k \in 1..Len(lit) : IgnoreCase(t[i + k - 1]) = IgnoreCase(lit[k])

\* End (exclusive) of the longest run of characters of class cls from i
SpanEnd(t, i, cls) ==
    CHOOSE j \in i..(Len(t) + 1) :
        /\ \A k \in i..(j - 1) : t[k] \in cls
        /\ j = Len(t) + 1 \/ t[j] \notin cls

CharAt(t, i) == IF i >= 1 /\ i <= Len(t) THEN t[i] ELSE "EOF"

\* End of the puzzle marker (?:n\.?[ORD DEG]|#) starting at b, 0 if none
MarkerEnd(t, b) ==
    IF IgnoreCase(CharAt(t, b)) = "n"
    THEN LET c == IF CharAt(t, b + 1) = "." THEN b + 2 ELSE b + 1
         IN  IF CharAt(t, c) \in {"ORD", "DEG"} THEN c + 1 ELSE 0
    ELSE IF CharAt(t, b) = "#" THEN b + 1
    ELSE 0

\* GAME_RE matched at offset i: <<match>> or <<>>
GameReAt(t, i) ==
    LET alts == {k \in 1..Len(GameAlternation) : LiteralAt(t, i, GameAlternation[k])}
    IN  IF alts = {} THEN <<>>
        ELSE
        LET k == CHOOSE x \in alts : \A y \in alts : x <= y
            a == i + Len(GameAlternation[k])
            b == SpanEnd(t, a, Whitespace)
            c == MarkerEnd(t, b)
        IN  IF b = a \/ c = 0 THEN <<>>
            ELSE
            LET d == SpanEnd(t, c, Whitespace)
                e == SpanEnd(t, d, Digits)
                f == SpanEnd(t, e, Whitespace)
                g == SpanEnd(t, f + 1, Whitespace)
                h == SpanEnd(t, g, Digits)
                z == SpanEnd(t, h + 1, Digits)
            IN  IF e = d \/ CharAt(t, f) # "|" THEN <<>>
                ELSE IF h = g \/ CharAt(t, h) # ":" \/ z = h + 1 THEN <<>>
                ELSE << [start |-> i,
                         end   |-> z,
                         g1    |-> SubSeq(t, i, a - 1),
                         g2    |-> SubSeq(t, d, e - 1),
                         g3    |-> SubSeq(t, g, h - 1),
                         g4    |-> SubSeq(t, h + 1, z - 1)] >>

\* GAME_RE.finditer(t) from offset i: the non-overlapping matches, left to
\* right.  GameReResume continues after the attempt m at offset i: past the
\* match, or at the next offset when there is none
RECURSIVE GameReFinditerFrom(_, _)
RECURSIVE GameReResume(_, _, _)
GameReResume(t, i, m) ==
    IF m # <<>> THEN m \o GameReFinditerFrom(t, m[1].end)
    ELSE GameReFinditerFrom(t, i + 1)

GameReFinditerFrom(t, i) ==
    IF i > Len(t) THEN <<>> ELSE GameReResume(t, i, GameReAt(t, i))

GameReFinditer(t) == GameReFinditerFrom(t, 1)

\* The first of the matches ms: <<match>> or <<>>
FirstMatch(ms) == IF ms = <<>> THEN <<>> ELSE <<ms[1]>>

\* GAME_RE.search(t): the leftmost match, <<match>> or <<>>
GameReSearchAtStart(t) == GameReAt(t, 1)

GameReSearch(t) == FirstMatch(GameReFinditerFrom(t, 1))

\* next((g for g in GAMES if g.lower() == label.lower()), label)
CanonicalGame(label) ==
    LET hits == {k \in 1..Len(GAMES) : LowerStr(GAMES[k]) = LowerStr(label)}
    IN  IF hits = {} THEN label
        ELSE GAMES[CHOOSE x \in hits : \A y \in hits : x <= y]

\* A null date (None)
NoDate == <<>>

\* pandas' NaT, what to_datetime("") yields
NaT == <<"N", "a", "T">>

---------------------------------------------------------------------------
(* parse_conversation *)

\* speaker_re(name) matches at offset i: a line start where name, ignoring
\* case, is followed by one whitespace character
SpeakerAt(t, name, i) ==
    /\ i = 1 \/ t[i - 1] = "\n"
    /\ LiteralAt(t, i, name)
    /\ CharAt(t, i + Len(name)) \in Whitespace

\* speaker_re(name).finditer(t) from offset i: the starts of the matches,
\* each search resuming at the end of the previous match
RECURSIVE SpeakerStartsFrom(_, _, _)
SpeakerStartsFrom(t, name, i) ==
    IF i > Len(t) THEN {}
    ELSE IF SpeakerAt(t, name, i)
         THEN {i} \cup SpeakerStartsFrom(t, name, i + Len(name) + 1)
    ELSE SpeakerStartsFrom(t, name, i + 1)

SpeakerStarts(t, name) == SpeakerStartsFrom(t, name, 1)

RECURSIVE SortedSeq(_)
SortedSeq(S) ==
    IF S = {} THEN <<>>
    ELSE LET m == CHOOSE x \in S : \A y \in S : x <= y
         IN  <<m>> \o SortedSeq(S \ {m})

MarkersOf(t, name) ==
    LET ps == SortedSeq(SpeakerStarts(t, name))
    IN  [k \in 1..Len(ps) |-> [pos |-> ps[k], name |-> name]]

\* Tuple order of (position, name)
MarkerLess(a, b) ==
    \/ a.pos < b.pos
    \/ a.pos = b.pos /\ StrLess(a.name, b.name)

\* list.sort() of the markers: a stable insertion into sorted order
RECURSIVE InsertMarker(_, _)
InsertMarker(sorted, m) ==
    IF sorted = <<>> THEN <<m>>
    ELSE IF MarkerLess(m, sorted[Len(sorted)])
         THEN Append(InsertMarker(SubSeq(sorted, 1, Len(sorted) - 1), m),
                     sorted[Len(sorted)])
    ELSE Append(sorted, m)

RECURSIVE SortMarkers(_)
SortMarkers(ms) ==
    IF ms = <<>> THEN <<>>
    ELSE InsertMarker(SortMarkers(SubSeq(ms, 1, Len(ms) - 1)), ms[Len(ms)])

DiscoverMarkers(t, me, co) == SortMarkers(MarkersOf(t, me) \o MarkersOf(t, co))

\* The reversed scan: the last marker whose position is below pos,
\* <<name>> or <<>> (sender stays None)
SenderBefore(markers, pos) ==
    LET before == {k \in 1..Len(markers) : markers[k].pos < pos}
    IN  IF before = {} THEN <<>>
        ELSE <<markers[CHOOSE x \in before : \A y \in before : y <= x].name>>

\* The record built from one match of GAME_RE
ResultRecord(sender, date, m) ==
    [sender     |-> sender,
     date       |-> date,
     game       |-> CanonicalGame(m.g1),
     puzzle_num |-> ParseInt(m.g2),
     time_sec   |-> to_seconds(m.g3, m.g4)]

\* The loop over GAME_RE.finditer(text); "if sender:" is false for None
\* and for the empty string
RECURSIVE AttributeAll(_, _)
AttributeAll(markers, ms) ==
    IF ms = <<>> THEN <<>>
    ELSE LET s == SenderBefore(markers, ms[1].start)
         IN  (IF s # <<>> /\ s[1] # <<>>
              THEN <<ResultRecord(s[1], NoDate, ms[1])>>
              ELSE <<>>)
             \o AttributeAll(markers, Tail(ms))

parse_conversation(t, me, co) ==
    LET markers == DiscoverMarkers(t, me, co)
    IN  [speaker_markers |-> markers,
         records         |-> AttributeAll(markers, GameReFinditer(t)),
         names_detected  |-> markers # <<>>]

---------------------------------------------------------------------------
(* detect_speakers *)

\* The header pattern ^(.+?)\s{2,}\d{1,2}:\d{2}\s*$ tried at line start i with
\* group 1 ending before j: the end of the match, 0 if there is none
HeaderEndFrom(t, i, j) ==
    IF \E k \in i..(j - 1) : t[k] = "\n" THEN 0
    ELSE
    LET w == SpanEnd(t, j, Whitespace)
        d == SpanEnd(t, w, Digits)
    IN  IF w - j < 2 \/ d - w \notin {1, 2} \/ CharAt(t, d) # ":" THEN 0
        ELSE IF CharAt(t, d + 1) \notin Digits \/ CharAt(t, d + 2) \notin Digits
             THEN 0
        ELSE
        LET e == d + 3
            r == SpanEnd(t, e, Whitespace)
            breaks == {k \in e..(r - 1) : t[k] = "\n"}
        IN  IF r = Len(t) + 1 THEN r
            ELSE IF breaks = {} THEN 0
            ELSE CHOOSE x \in breaks : \A y \in breaks : y <= x

\* The header pattern matched at offset i: <<[name, end]>> or <<>>; the lazy
\* group takes the shortest run that lets the rest match
HeaderAt(t, i) ==
    IF ~(i = 1 \/ t[i - 1] = "\n") THEN <<>>
    ELSE
    LET js == {j \in (i + 1)..Len(t) : HeaderEndFrom(t, i, j) # 0}
    IN  IF js = {} THEN <<>>
        ELSE LET j == CHOOSE x \in js : \A y \in js : x <= y
             IN  << [name |-> Strip(SubSeq(t, i, j - 1)),
                     end  |-> HeaderEndFrom(t, i, j)] >>

\* pattern.finditer(text) from offset i, with the seen/names bookkeeping:
\* the distinct stripped names in order of first occurrence
RECURSIVE DetectFrom(_, _, _)
DetectFrom(t, i, names) ==
    IF i > Len(t) THEN names
    ELSE LET m == HeaderAt(t, i)
         IN  IF m = <<>> THEN DetectFrom(t, i + 1, names)
             ELSE DetectFrom(t, m[1].end,
                             IF \E k \in 1..Len(names) : names[k] = m[1].name
                             THEN names
                             ELSE Append(names, m[1].name))

detect_speakers(t) == DetectFrom(t, 1, <<>>)

---------------------------------------------------------------------------
(* parse_messages *)

\* str.upper() of one character: U+00E9 to U+00C9 (E acute), U+017F (long s)
\* to S, U+0131 (dotless i) to I
Upper(c) ==
    IF \E i \in 1..26 : LowerSeq[i] = c
    THEN UpperSeq[CHOOSE i \in 1..26 : LowerSeq[i] = c]
    ELSE IF c = "U+00E9" THEN "U+00C9"
    ELSE IF c = "U+017F" THEN "S"
    ELSE IF c = "U+0131" THEN "I"
    ELSE c

UpperStr(s) == [i \in 1..Len(s) |-> Upper(s[i])]

\* {c.upper(): c for c in df.columns}.get(key): the last column whose
\* upper-cased name is key, 0 if none
ColumnGet(columns, key) ==
    LET hits == {k \in 1..Len(columns) : UpperStr(columns[k]) = key}
    IN  IF hits = {} THEN 0 ELSE CHOOSE x \in hits : \A y \in hits : y <= x

\* The texts pandas reads as a missing value
NatStrings == {<<>>, <<"N", "a", "T">>, <<"n", "a", "t">>, <<"N", "A", "T">>,
               <<"n", "a", "n">>, <<"N", "a", "N">>, <<"N", "A", "N">>}

\* A date this model does not compute
SomeDate == <<"SomeDate">>

LeapYear(y) == (y % 4 = 0 /\ y % 100 # 0) \/ y % 400 = 0

DaysIn(y, m) ==
    IF m \in {4, 6, 9, 11} THEN 30
    ELSE IF m = 2 THEN (IF LeapYear(y) THEN 29 ELSE 28)
    ELSE 31

\* s has an ASCII digit at every offset from i to j - 1
DigitsAt(s, i, j) ==
    /\ i >= 1
    /\ j - 1 <= Len(s)
    /\ \A k \in i..(j - 1) : s[k] \in AsciiDigits

\* The number written at i..(j - 1)
Num(s, i, j) == ParseInt(SubSeq(s, i, j - 1))

\* End (exclusive) of a field of one or two digits at i, 0 if there is none
FieldEnd(s, i) ==
    IF DigitsAt(s, i, i + 2) THEN i + 2
    ELSE IF DigitsAt(s, i, i + 1) THEN i + 1
    ELSE 0

DateSeps == {"-", "/"}

\* A calendar date as written, <<[y, m, d, rest, form]>> with rest the offset
\* of what follows it, or <<>>.  YYYY-M-D or YYYY/M/D, b the end of the month
\* field and c the end of the day field
NumericDate(s, b, c) ==
    IF /\ DigitsAt(s, 1, 5)
       /\ CharAt(s, 5) \in DateSeps
       /\ b # 0
       /\ CharAt(s, b) = CharAt(s, 5)
       /\ c # 0
    THEN <<[y |-> Num(s, 1, 5), m |-> Num(s, 6, b), d |-> Num(s, b + 1, c),
            rest |-> c, form |-> "numeric"]>>
    ELSE <<>>

\* YYYYMMDD
CompactDate(s) ==
    IF Len(s) = 8 /\ DigitsAt(s, 1, 9)
    THEN <<[y |-> Num(s, 1, 5), m |-> Num(s, 5, 7), d |-> Num(s, 7, 9),
            rest |-> 9, form |-> "compact"]>>
    ELSE <<>>

MonthNames ==
    << <<"J", "a", "n", "u", "a", "r", "y">>,
       <<"F", "e", "b", "r", "u", "a", "r", "y">>,
       <<"M", "a", "r", "c", "h">>,
       <<"A", "p", "r", "i", "l">>,
       <<"M", "a", "y">>,
       <<"J", "u", "n", "e">>,
       <<"J", "u", "l", "y">>,
       <<"A", "u", "g", "u", "s", "t">>,
       <<"S", "e", "p", "t", "e", "m", "b", "e", "r">>,
       <<"O", "c", "t", "o", "b", "e", "r">>,
       <<"N", "o", "v", "e", "m", "b", "e", "r">>,
       <<"D", "e", "c", "e", "m", "b", "e", "r">> >>

Letters == {UpperSeq[i] : i \in 1..26} \cup {LowerSeq[i] : i \in 1..26}

\* The months whose name, in full or cut to three letters, is the word w in
\* any letter case
MonthsNamed(w) ==
    {k \in 1..12 :
        /\ Len(w) \in {3, Len(MonthNames[k])}
        /\ LowerStr(w) = LowerStr(SubSeq(MonthNames[k], 1, Len(w)))}

\* "Mon D, YYYY" or "Mon D YYYY", w the end of the leading word, e the end
\* of the day field and y the offset of the year
NamedDate(s, w, e, y) ==
    IF /\ MonthsNamed(SubSeq(s, 1, w - 1)) # {}
       /\ CharAt(s, w) = " "
       /\ e # 0
       /\ CharAt(s, y - 1) = " "
       /\ DigitsAt(s, y, y + 4)
       /\ Len(s) = y + 3
    THEN <<[y |-> Num(s, y, y + 4),
            m |-> CHOOSE k \in MonthsNamed(SubSeq(s, 1, w - 1)) : TRUE,
            d |-> Num(s, w + 1, e),
            rest |-> Len(s) + 1,
            form |-> "named"]>>
    ELSE <<>>

\* The offset of the year after a day field that ends at e: past ", " or " "
YearAfter(s, e) == IF CharAt(s, e) = "," THEN e + 2 ELSE e + 1

\* The calendar date s starts with, in one of the three forms
DateWritten(s) ==
    NumericDate(s, FieldEnd(s, 6), FieldEnd(s, FieldEnd(s, 6) + 1))
    \o CompactDate(s)
    \o NamedDate(s, SpanEnd(s, 1, Letters),
                 FieldEnd(s, SpanEnd(s, 1, Letters) + 1),
                 YearAfter(s, FieldEnd(s, SpanEnd(s, 1, Letters) + 1)))

\* End (exclusive) of the time of day r starts with, 0 if there is none: a
\* space or T, HH:MM, and optionally :SS and a fraction of up to nine digits
TimeEnd(r) ==
    IF ~(/\ CharAt(r, 1) \in {" ", "T"}
         /\ DigitsAt(r, 2, 4)
         /\ CharAt(r, 4) = ":"
         /\ DigitsAt(r, 5, 7))
    THEN 0
    ELSE IF ~(CharAt(r, 7) = ":" /\ DigitsAt(r, 8, 10)) THEN 7
    ELSE IF /\ CharAt(r, 10) = "."
            /\ SpanEnd(r, 11, AsciiDigits) - 11 \in 1..9
         THEN SpanEnd(r, 11, AsciiDigits)
    ELSE 10

\* The offset from UTC a zone text names, <<[sign, oh, om]>> or <<>>:
\* nothing, Z, " UTC", or a sign with HH:MM or HHMM
ZoneOffset(z) ==
    IF z \in {<<>>, <<"Z">>, <<" ", "U", "T", "C">>}
    THEN <<[sign |-> 1, oh |-> 0, om |-> 0]>>
    ELSE IF /\ Len(z) = 6
            /\ z[1] \in {"+", "-"}
            /\ DigitsAt(z, 2, 4)
            /\ z[4] = ":"
            /\ DigitsAt(z, 5, 7)
         THEN <<[sign |-> IF z[1] = "+" THEN 1 ELSE -1,
                 oh |-> Num(z, 2, 4), om |-> Num(z, 5, 7)]>>
    ELSE IF Len(z) = 5 /\ z[1] \in {"+", "-"} /\ DigitsAt(z, 2, 6)
         THEN <<[sign |-> IF z[1] = "+" THEN 1 ELSE -1,
                 oh |-> Num(z, 2, 4), om |-> Num(z, 4, 6)]>>
    ELSE <<>>

\* The time of day read from r, e the end of its HH:MM:SS.f part and zone
\* the offset read from what follows
TimeFields(r, e, zone) ==
    [h   |-> Num(r, 2, 4),
     mi  |-> Num(r, 5, 7),
     sec |-> IF e >= 10 THEN Num(r, 8, 10) ELSE 0,
     ns  |-> IF e > 10 THEN Num(r, 11, e) * 10 ^ (20 - e) ELSE 0,
     sign |-> zone.sign,
     oh  |-> zone.oh,
     om  |-> zone.om]

\* What follows the calendar date, <<clock>> or <<>>: nothing (midnight
\* UTC), or a time of day and a zone
ClockAt(r, e) ==
    IF r = <<>>
    THEN <<[h |-> 0, mi |-> 0, sec |-> 0, ns |-> 0, sign |-> 1, oh |-> 0,
            om |-> 0]>>
    ELSE IF e = 0 THEN <<>>
    ELSE IF ZoneOffset(SubSeq(r, e, Len(r))) = <<>> THEN <<>>
    ELSE <<TimeFields(r, e, ZoneOffset(SubSeq(r, e, Len(r)))[1])>>

ClockWritten(r) == ClockAt(r, TimeEnd(r))

\* The calendar has the day
CalendarValid(dt) == dt.m \in 1..12 /\ dt.d \in 1..DaysIn(dt.y, dt.m)

\* The clock has the time of day
ClockValid(ck) == ck.h < 24 /\ ck.mi < 60 /\ ck.sec < 60

\* The offset is one every parser takes: hours below 24, minutes below 60
OffsetValid(ck) == ck.oh < 24 /\ ck.om < 60

\* The year is read as written by every parser: a year of four digits
\* between separators; in the other forms dateutil takes a number below 100
\* as a two-digit year, so only years from 1000 on are decided here
YearDecided(dt) == IF dt.form = "numeric" THEN dt.y >= 1 ELSE dt.y >= 1000

\* Minutes since the local midnight of the UTC instant (utc=True converts)
UtcMinutes(ck) == ck.h * 60 + ck.mi - ck.sign * (ck.oh * 60 + ck.om)

NextDay(y, m, d) ==
    IF d < DaysIn(y, m) THEN <<y, m, d + 1>>
    ELSE IF m < 12 THEN <<y, m + 1, 1>>
    ELSE <<y + 1, 1, 1>>

PrevDay(y, m, d) ==
    IF d > 1 THEN <<y, m, d - 1>>
    ELSE IF m > 1 THEN <<y, m - 1, DaysIn(y, m - 1)>>
    ELSE <<y - 1, 12, 31>>

\* The instant in UTC: <<year, month, day, minute of the day, second,
\* nanosecond>>
UtcInstant(dt, ck) ==
    (IF UtcMinutes(ck) < 0 THEN PrevDay(dt.y, dt.m, dt.d)
     ELSE IF UtcMinutes(ck) >= 1440 THEN NextDay(dt.y, dt.m, dt.d)
     ELSE <<dt.y, dt.m, dt.d>>)
    \o <<UtcMinutes(ck) % 1440, ck.sec, ck.ns>>

\* Tuple order, a <= b
RECURSIVE TupleLeq(_, _)
TupleLeq(a, b) ==
    IF a = <<>> THEN TRUE
    ELSE IF a[1] # b[1] THEN a[1] < b[1]
    ELSE TupleLeq(Tail(a), Tail(b))

\* pd.Timestamp.min and pd.Timestamp.max of a nanosecond timestamp
TimestampMin == <<1677, 9, 21, 12, 43, 145224193>>

TimestampMax == <<2262, 4, 11, 1427, 16, 854775807>>

\* format "04d"
ZeroPad4(n) ==
    IF n < 10 THEN <<"0", "0", "0">> \o IntStr(n)
    ELSE IF n < 100 THEN <<"0", "0">> \o IntStr(n)
    ELSE IF n < 1000 THEN <<"0">> \o IntStr(n)
    ELSE IntStr(n)

\* str(date): YYYY-MM-DD
IsoDate(t) ==
    ZeroPad4(t[1]) \o <<"-">> \o ZeroPad2(t[2]) \o <<"-">> \o ZeroPad2(t[3])

\* The fields as written, in the layout of UtcInstant
WallInstant(dt, ck) == <<dt.y, dt.m, dt.d, ck.h * 60 + ck.mi, ck.sec, ck.ns>>

\* The instant lies in the range of a nanosecond timestamp
InBounds(t) == TupleLeq(TimestampMin, t) /\ TupleLeq(t, TimestampMax)

\* The dates read from the fields as written (wall) and the instant they
\* denote in UTC (utc).  pandas before 3 tests the range of a nanosecond
\* timestamp on the fields as written, raises OutOfBoundsDatetime outside it
\* and then subtracts the offset in 64-bit arithmetic; pandas 3 reads the
\* day of the instant at a coarser resolution.  The repository does not pin
\* the version, so all are outcomes: with both inside the range the day of
\* the instant, with the instant outside it also None and, when the fields
\* as written are inside, a date not computed here
DatesOfInstant(wall, utc) ==
    IF InBounds(wall) /\ InBounds(utc) THEN {IsoDate(utc)}
    ELSE {NoDate}
         \cup (IF utc[1] \in 1..9999 THEN {IsoDate(utc)} ELSE {})
         \cup (IF InBounds(wall) THEN {SomeDate} ELSE {})

\* What pandas makes of text in none of the forms above: the model does
\* not decide it (the free-form parser differs between pandas versions),
\* so the outcome is None, NaT or a date not computed here
Undecided == {NoDate, NaT, SomeDate}

\* The dates of a calendar date and a clock as written.  A day or a time
\* that does not exist in a date written YYYY-M-D or YYYY/M/D raises in
\* every parser; in the other forms, and for a year or an offset the parsers
\* do not agree on, the outcome is Undecided
DatesOf(dt, cks) ==
    IF cks = <<>> THEN Undecided
    ELSE IF ~(CalendarValid(dt) /\ ClockValid(cks[1]))
         THEN (IF dt.form = "numeric" THEN {NoDate} ELSE Undecided)
    ELSE IF ~(YearDecided(dt) /\ OffsetValid(cks[1])) THEN Undecided
    ELSE DatesOfInstant(WallInstant(dt, cks[1]), UtcInstant(dt, cks[1]))

DatesRead(s, dts) ==
    IF dts = <<>> THEN Undecided
    ELSE DatesOf(dts[1], ClockWritten(SubSeq(s, dts[1].rest, Len(s))))

\* pd.to_datetime(s, utc=True).date(), None on an exception: the set of
\* outcomes.  A missing value is NaT.  A calendar date written YYYY-M-D,
\* YYYY/M/D, YYYYMMDD or "Mon D, YYYY", the first two alone or followed by
\* a time of day and a zone, is the day of that instant in UTC, written
\* YYYY-MM-DD.  Other text is Undecided.
ToDate(s) ==
    IF s \in NatStrings THEN {NaT} ELSE DatesRead(s, DateWritten(s))

FROM == <<"F", "R", "O", "M">>
CONTENT == <<"C", "O", "N", "T", "E", "N", "T">>
DATE == <<"D", "A", "T", "E">>

\* A missing value (NaN): what pd.read_csv makes of an empty cell.  A table
\* is the DataFrame read_csv returned, for columns it reads as text: a cell
\* is a text or NaN
NaN == <<"NaN">>

\* str(cell)
CellStr(c) == IF c = NaN THEN <<"n", "a", "n">> ELSE c

\* str(row[col]) if col else "": the cell of column number col as text, ""
\* when the table has no such column (col = 0)
RowGet(row, col) == IF col # 0 THEN CellStr(row[col]) ELSE <<>>

\* The end of one iteration, given the search result m: "if not m:
\* continue", else the record with the date parsed; one outcome for each
\* date the text can be read as
RowRecord(sender, date_str, m) ==
    IF m = <<>> THEN {<<>>}
    ELSE {<<ResultRecord(sender, d, m[1])>> : d \in ToDate(date_str)}

\* One iteration of the loop over df.iterrows(): the outcomes, each
\* <<record>> or <<>>
ParseRowAtStart(columns, row) ==
    RowRecord(Strip(RowGet(row, ColumnGet(columns, FROM))),
              RowGet(row, ColumnGet(columns, DATE)),
              GameReSearchAtStart(RowGet(row, ColumnGet(columns, CONTENT))))

ParseRow(columns, row) ==
    RowRecord(Strip(RowGet(row, ColumnGet(columns, FROM))),
              RowGet(row, ColumnGet(columns, DATE)),
              GameReSearch(RowGet(row, ColumnGet(columns, CONTENT))))

\* The loop: the tables of records it can build
RECURSIVE ParseRows(_, _)
ParseRows(columns, rows) ==
    IF rows = <<>> THEN {<<>>}
    ELSE {r \o rest : r \in ParseRow(columns, rows[1]),
                      rest \in ParseRows(columns, Tail(rows))}

\* pd.DataFrame(records): a date column that holds only NaT and None, and
\* at least one NaT, is read as a column of datetimes, in which None is NaT;
\* with a date in it the column keeps its objects
DataFrameOf(recs) ==
    IF /\ \A k \in 1..Len(recs) : recs[k].date \in {NaT, NoDate}
       /\ \E k \in 1..Len(recs) : recs[k].date = NaT
    THEN [k \in 1..Len(recs) |-> [recs[k] EXCEPT !.date = NaT]]
    ELSE recs

\* The tables parse_messages(d) can return
parse_messages(d) == {DataFrameOf(recs) : recs \in ParseRows(d.columns, d.rows)}

---------------------------------------------------------------------------
(* merge_results *)

Key(r) == <<r.sender, r.game, r.puzzle_num>>

\* The row numbers of S that an ascending ordering can put first: those of
\* the lowest time_sec, one for each distinct row among them
FirstOf(rows, S) ==
    {x \in S :
        /\ \A z \in S : rows[x].time_sec <= rows[z].time_sec
        /\ \A z \in S : rows[z] = rows[x] => x <= z}

\* The orderings of the rows numbered in S that are ascending in time_sec
RECURSIVE SortedFrom(_, _)
SortedFrom(rows, S) ==
    IF S = {} THEN {<<>>}
    ELSE UNION {{<<rows[x]>> \o p : p \in SortedFrom(rows, S \ {x})} :
                   x \in FirstOf(rows, S)}

\* sort_values("time_sec") with the default kind="quicksort", which is not
\* stable: every ordering of the rows that is ascending in time_sec
sort_values(rows) == SortedFrom(rows, 1..Len(rows))

\* drop_duplicates(subset=[sender, game, puzzle_num], keep="first")
RECURSIVE DropDuplicatesKeepLast(_)
DropDuplicatesKeepLast(rows) ==
    IF rows = <<>> THEN <<>>
    ELSE IF \E j \in 2..Len(rows) : Key(rows[j]) = Key(rows[1])
         THEN DropDuplicatesKeepLast(Tail(rows))
    ELSE <<rows[1]>> \o DropDuplicatesKeepLast(Tail(rows))

\* drop_duplicates(subset=[sender, game, puzzle_num], keep=False)
DropDuplicatesKeepNone(rows) ==
    SelectSeq(rows, LAMBDA r :
        \A i, j \in 1..Len(rows) :
            (Key(rows[i]) = Key(r) /\ Key(rows[j]) = Key(r)) => i = j)

RECURSIVE drop_duplicates(_)
drop_duplicates(rows) ==
    IF rows = <<>> THEN <<>>
    ELSE LET n == Len(rows)
             init == drop_duplicates(SubSeq(rows, 1, n - 1))
         IN  IF \E j \in 1..(n - 1) : Key(rows[j]) = Key(rows[n])
             THEN init
             ELSE Append(init, rows[n])

\* The sort / drop_duplicates / reset_index chain: every table it can yield
Deduplicated(rows) == {drop_duplicates(s) : s \in sort_values(rows)}

MergeNoShortCircuit(csv, manual) == Deduplicated(csv \o manual)

\* The tables merge_results(csv, manual) can return
merge_results(csv, manual) ==
    IF manual = <<>> THEN {csv} ELSE Deduplicated(csv \o manual)

---------------------------------------------------------------------------
(* compute_scores *)

GameSet == {GAMES[k] : k \in 1..Len(GAMES)}

\* rows[rows.sender == who][rows.game == game]
RowsOf(rows, who, game) ==
    SelectSeq(rows, LAMBDA r : r.sender = who /\ r.game = game)

\* The index of groupby("puzzle_num")
PuzzleNums(rows) == {rows[k].puzzle_num : k \in 1..Len(rows)}

\* groupby("puzzle_num")["time_sec"].min() at pnum
FirstTime(rows, pnum) ==
    rows[CHOOSE k \in 1..Len(rows) :
            /\ rows[k].puzzle_num = pnum
            /\ \A j \in 1..(k - 1) : rows[j].puzzle_num # pnum].time_sec

MinTime(rows, pnum) ==
    LET ts == {rows[k].time_sec : k \in {j \in 1..Len(rows) : rows[j].puzzle_num = pnum}}
    IN  CHOOSE x \in ts : \A y \in ts : x <= y

WinnerNoTie(mt, ct) == IF mt <= ct THEN "me" ELSE "contact"

Winner(mt, ct) ==
    IF mt < ct THEN "me" ELSE IF ct < mt THEN "contact" ELSE "tie"

\* The loop over the sorted shared puzzle numbers, from the zeroed entry
RECURSIVE ScoreGame(_, _, _)
ScoreGame(pnums, my_g, co_g) ==
    IF pnums = <<>> THEN [me |-> 0, contact |-> 0, tie |-> 0, duels |-> <<>>]
    ELSE LET n    == Len(pnums)
             acc  == ScoreGame(SubSeq(pnums, 1, n - 1), my_g, co_g)
             pnum == pnums[n]
             mt   == MinTime(my_g, pnum)
             ct   == MinTime(co_g, pnum)
             w    == Winner(mt, ct)
         IN  [me      |-> acc.me + (IF w = "me" THEN 1 ELSE 0),
              contact |-> acc.contact + (IF w = "contact" THEN 1 ELSE 0),
              tie     |-> acc.tie + (IF w = "tie" THEN 1 ELSE 0),
              duels   |-> Append(acc.duels,
                                 [puzzle_num   |-> pnum,
                                  my_time      |-> mt,
                                  contact_time |-> ct,
                                  winner       |-> w])]

compute_scores(rows, me, co) ==
    [game \in GameSet |->
        LET my_g == RowsOf(rows, me, game)
            co_g == RowsOf(rows, co, game)
        IN  ScoreGame(SortedSeq(PuzzleNums(my_g) \cap PuzzleNums(co_g)),
                      my_g, co_g)]

---------------------------------------------------------------------------
(* Inputs *)

\* Bounds of the explored inputs
MaxRows == 3
MaxScoreRows == 4
MaxLines == 3
MaxTableRows == 2
MaxMinutes == 20

Ana == <<"A", "n", "a">>
AnaLower == <<"a", "n", "a">>
AnaMaria == <<"A", "n", "a", " ", "M", "a", "r", "i", "a">>
Luis == <<"L", "u", "i", "s">>
EmptyName == <<>>

Tango == GAMES[1]
Zip == GAMES[3]

Day == <<"2", "0", "2", "4", "-", "0", "1", "-", "0", "5">>

Idle == <<>>

\* Result rows: two senders, three (game, puzzle) pairs, two times
InputSenders == {Ana, Luis}
InputPuzzles == {<<Tango, 1>>, <<Tango, 2>>, <<Zip, 1>>}
InputTimes == {30, 62}

RowsWithDate(date) ==
    {[sender |-> s, date |-> date, game |-> gp[1], puzzle_num |-> gp[2],
      time_sec |-> t] : s \in InputSenders, gp \in InputPuzzles, t \in InputTimes}

\* All sequences over S of length n
SeqsOfLen(S, n) == [1..n -> S]

\* The name pairs compute_scores is called with
ScoreNames == {<<Ana, Luis>>, <<Luis, Ana>>, <<Ana, Ana>>}

---------------------------------------------------------------------------
(* Merge and score: results = merge_results(csv, manual), then            *)
(* compute_scores(results, my_name, contact), as main() chains them        *)

Init ==
    /\ pc = "start"
    /\ \E n \in 0..MaxRows : \E k \in 0..n :
          /\ csv_df \in SeqsOfLen(RowsWithDate(Day), k)
          /\ manual_df \in SeqsOfLen(RowsWithDate(NoDate), n - k)
    /\ results = Idle
    /\ my_name = Idle
    /\ contact = Idle
    /\ scores = Idle
    /\ text = Idle
    /\ speaker_markers = Idle
    /\ records = Idle
    /\ names_detected = FALSE
    /\ df = Idle
    /\ parsed = Idle
    /\ minutes = Idle
    /\ seconds = Idle
    /\ total = 0
    /\ shown = Idle

MergeResults ==
    /\ pc = "start"
    /\ \E r \in merge_results(csv_df, manual_df) : results' = r
    /\ pc' = "merged"
    /\ UNCHANGED <<csv_df, manual_df, my_name, contact, scores, text,
                   speaker_markers, records, names_detected, df, parsed,
                   minutes, seconds, total, shown>>

ComputeScores ==
    /\ pc = "merged"
    /\ \E names \in ScoreNames :
          /\ my_name' = names[1]
          /\ contact' = names[2]
          /\ scores' = compute_scores(results, names[1], names[2])
    /\ pc' = "scored"
    /\ UNCHANGED <<csv_df, manual_df, results, text, speaker_markers, records,
                   names_detected, df, parsed, minutes, seconds, total, shown>>

Next == MergeResults \/ ComputeScores

Spec == Init /\ [][Next]_vars

---------------------------------------------------------------------------
(* Scoring alone: compute_scores on any table merge_results can hand it,   *)
(* which, by the empty-secondary return, is any table of CSV rows          *)

InitScore ==
    /\ pc = "merged"
    /\ \E n \in 0..MaxScoreRows : results \in SeqsOfLen(RowsWithDate(Day), n)
    /\ csv_df = results
    /\ manual_df = <<>>
    /\ my_name = Idle
    /\ contact = Idle
    /\ scores = Idle
    /\ text = Idle
    /\ speaker_markers = Idle
    /\ records = Idle
    /\ names_detected = FALSE
    /\ df = Idle
    /\ parsed = Idle
    /\ minutes = Idle
    /\ seconds = Idle
    /\ total = 0
    /\ shown = Idle

NextScore == ComputeScores

SpecScore == InitScore /\ [][NextScore]_vars

---------------------------------------------------------------------------
(* Properties of merge_results *)

Merged == pc \in {"merged", "scored"}

Combined == csv_df \o manual_df

\* The lowest time_sec among the rows of a table that have the key
BestTime(rows, key) ==
    LET ts == {rows[k].time_sec : k \in {j \in 1..Len(rows) : Key(rows[j]) = key}}
    IN  CHOOSE x \in ts : \A y \in ts : x <= y

\* The earliest row of a table with the key and its lowest time
EarliestBest(rows, key) ==
    rows[CHOOSE i \in 1..Len(rows) :
            /\ Key(rows[i]) = key
            /\ rows[i].time_sec = BestTime(rows, key)
            /\ \A j \in 1..(i - 1) :
                  ~(Key(rows[j]) = key /\ rows[j].time_sec = BestTime(rows, key))]

\* C1 (as claimed): for every primary and secondary, the empty secondary
\* included, the merged table has at most one row per (sender, game,
\* puzzle_num) and that row carries the lowest time_sec of the key.
C1_MergeKeyInvariant ==
    Merged =>
        /\ \A i, j \in 1..Len(results) :
              Key(results[i]) = Key(results[j]) => i = j
        /\ \A i \in 1..Len(results) :
              results[i].time_sec = BestTime(Combined, Key(results[i]))

\* C2 (as claimed): with a non-empty secondary, the surviving row of every
\* key is the earliest row of primary ++ secondary that has the key's
\* lowest time_sec.
C2_MergeTieBreak ==
    (Merged /\ manual_df # <<>>) =>
        \A i \in 1..Len(results) :
            results[i] = EarliestBest(Combined, Key(results[i]))

\* C3: merge(P, empty) is P itself, rows and order, and merging the merged
\* table with an empty secondary returns the merged table.
C3_ShortCircuitIdempotent ==
    Merged =>
        /\ manual_df = <<>> => results = csv_df
        /\ merge_results(results, <<>>) = {results}

\* C3 witness: an empty secondary and a primary that is neither sorted by
\* time nor free of duplicate keys has been merged.
C3_Witness ==
    /\ pc = "merged"
    /\ manual_df = <<>>
    /\ Len(csv_df) >= 2
    /\ csv_df[1].time_sec > csv_df[2].time_sec
    /\ Key(csv_df[1]) = Key(csv_df[2])

\* C10: the scores of the merged table are the scores of the plain
\* concatenation primary ++ secondary, and the scores of a primary returned
\* as is are the scores of each of its deduplicated forms.
C10_ScoreIgnoresDedup ==
    pc = "scored" =>
        /\ scores = compute_scores(Combined, my_name, contact)
        /\ manual_df = <<>> =>
              \A d \in Deduplicated(csv_df) :
                  compute_scores(d, my_name, contact) = scores

\* C10 witness: the merge dropped a duplicate and a duel was scored.
C10_Witness ==
    /\ pc = "scored"
    /\ my_name # contact
    /\ manual_df # <<>>
    /\ Len(results) < Len(Combined)
    /\ \E g \in GameSet : Len(scores[g].duels) >= 1

---------------------------------------------------------------------------
(* Properties of compute_scores *)

\* The time_sec values a participant has for a puzzle of a game
TimesOf(rows, who, game, pnum) ==
    {rows[k].time_sec :
        k \in {j \in 1..Len(rows) :
                 /\ rows[j].sender = who
                 /\ rows[j].game = game
                 /\ rows[j].puzzle_num = pnum}}

IsLeast(x, S) == x \in S /\ \A y \in S : x <= y

FlipWinner(w) ==
    IF w = "me" THEN "contact" ELSE IF w = "contact" THEN "me" ELSE w

\* C6: scoring with the two names exchanged exchanges the me and contact
\* counters of every game, keeps its tie counter, and keeps its duels in the
\* same puzzle order with the two times exchanged and the winner flipped.
C6_ScorerSymmetry ==
    pc = "scored" =>
        LET swapped == compute_scores(results, contact, my_name)
        IN  \A g \in GameSet :
                /\ swapped[g].me = scores[g].contact
                /\ swapped[g].contact = scores[g].me
                /\ swapped[g].tie = scores[g].tie
                /\ Len(swapped[g].duels) = Len(scores[g].duels)
                /\ \A k \in 1..Len(scores[g].duels) :
                      LET a == scores[g].duels[k]
                          b == swapped[g].duels[k]
                      IN  /\ b.puzzle_num = a.puzzle_num
                          /\ b.my_time = a.contact_time
                          /\ b.contact_time = a.my_time
                          /\ b.winner = FlipWinner(a.winner)

\* C6 witness: two distinct participants were scored in a game that has a
\* duel won by "me" and a tied duel.
C6_Witness ==
    /\ pc = "scored"
    /\ my_name # contact
    /\ \E g \in GameSet :
          /\ \E k \in 1..Len(scores[g].duels) : scores[g].duels[k].winner = "me"
          /\ \E k \in 1..Len(scores[g].duels) : scores[g].duels[k].winner = "tie"

\* C7: per game, one duel for each puzzle both participants have a result
\* for and no other, in strictly ascending puzzle_num; each time is that
\* participant's lowest time_sec for the puzzle; the winner is the strictly
\* lower time or a tie; each counter is the number of duels with that winner.
C7_ScorerDuels ==
    pc = "scored" =>
        \A g \in GameSet :
            LET d      == scores[g].duels
                shared == {p \in PuzzleNums(results) :
                              /\ TimesOf(results, my_name, g, p) # {}
                              /\ TimesOf(results, contact, g, p) # {}}
            IN  /\ {d[k].puzzle_num : k \in 1..Len(d)} = shared
                /\ \A k \in 1..(Len(d) - 1) : d[k].puzzle_num < d[k + 1].puzzle_num
                /\ \A k \in 1..Len(d) :
                      /\ IsLeast(d[k].my_time,
                                 TimesOf(results, my_name, g, d[k].puzzle_num))
                      /\ IsLeast(d[k].contact_time,
                                 TimesOf(results, contact, g, d[k].puzzle_num))
                      /\ d[k].winner = "me" <=> d[k].my_time < d[k].contact_time
                      /\ d[k].winner = "contact" <=> d[k].contact_time < d[k].my_time
                      /\ d[k].winner = "tie" <=> d[k].my_time = d[k].contact_time
                /\ scores[g].me =
                      Cardinality({k \in 1..Len(d) : d[k].winner = "me"})
                /\ scores[g].contact =
                      Cardinality({k \in 1..Len(d) : d[k].winner = "contact"})
                /\ scores[g].tie =
                      Cardinality({k \in 1..Len(d) : d[k].winner = "tie"})
                /\ scores[g].me + scores[g].contact + scores[g].tie = Len(d)

\* C7 witness: a game with two duels, one won by "contact" and one not, was
\* scored from a table that lists the higher puzzle number first, while
\* another game has no shared puzzle.
C7_Witness ==
    /\ pc = "scored"
    /\ my_name # contact
    /\ Len(results) >= 2
    /\ results[1].puzzle_num > results[2].puzzle_num
    /\ \E g \in GameSet :
          /\ Len(scores[g].duels) = 2
          /\ scores[g].duels[1].winner = "contact"
          /\ scores[g].duels[2].winner # "contact"
    /\ \E g \in GameSet : scores[g].duels = <<>>

---------------------------------------------------------------------------
(* Transcript extraction: parse_conversation on pasted text *)

\* Lines a pasted conversation is made of: three message headers, two
\* result lines, an indented result line and a line that mentions a name
\* and carries a result in its middle
HeaderAna == <<"A", "n", "a", " ", " ", "8", ":", "4", "1">>

HeaderAnaMaria == <<"A", "n", "a", " ", "M", "a", "r", "i", "a", " ", " ",
    "8", ":", "4", "5">>

HeaderLuis == <<"L", "u", "i", "s", " ", " ", "8", ":", "5", "0">>

TokenZip == <<"Z", "i", "p", " ", "#", "9", " ", "|", " ", "0", ":", "3",
    "0">>

TokenTango == <<"T", "a", "n", "g", "o", " ", "n", ".", "ORD", " ", "5",
    " ", "|", " ", "1", ":", "0", "2">>

TokenIndented == <<" ", "z", "i", "p", " ", "#", "1", "|", "0", ":", "0",
    "5">>

TokenMidLine == <<"g", "g", " ", "L", "u", "i", "s", " ", "Q", "u", "e",
    "e", "n", "s", " ", "n", "DEG", "1", "2", "|", "2", ":", "0", "0">>

TranscriptLines == {HeaderAna, HeaderAnaMaria, HeaderLuis, TokenZip,
                    TokenTango, TokenIndented, TokenMidLine}

\* "\n".join(lines)
RECURSIVE JoinLines(_)
JoinLines(ls) ==
    IF ls = <<>> THEN <<>>
    ELSE IF Len(ls) = 1 THEN ls[1]
    ELSE ls[1] \o <<"\n">> \o JoinLines(Tail(ls))

\* The participant pairs parse_conversation is called with
ParticipantPairs == {<<Ana, Luis>>, <<Ana, AnaMaria>>, <<Ana, AnaLower>>,
                     <<Ana, EmptyName>>, <<Luis, Luis>>}

InitTranscript ==
    /\ pc = "start"
    /\ \E n \in 0..MaxLines : \E ls \in SeqsOfLen(TranscriptLines, n) :
          text = JoinLines(ls)
    /\ \E names \in ParticipantPairs :
          /\ my_name = names[1]
          /\ contact = names[2]
    /\ speaker_markers = Idle
    /\ records = Idle
    /\ names_detected = FALSE
    /\ csv_df = Idle
    /\ manual_df = Idle
    /\ results = Idle
    /\ scores = Idle
    /\ df = Idle
    /\ parsed = Idle
    /\ minutes = Idle
    /\ seconds = Idle
    /\ total = 0
    /\ shown = Idle

ParseConversation ==
    /\ pc = "start"
    /\ LET out == parse_conversation(text, my_name, contact)
       IN  /\ speaker_markers' = out.speaker_markers
           /\ records' = out.records
           /\ names_detected' = out.names_detected
    /\ pc' = "parsed"
    /\ UNCHANGED <<csv_df, manual_df, results, my_name, contact, scores, text,
                   df, parsed, minutes, seconds, total, shown>>

NextTranscript == ParseConversation

SpecTranscript == InitTranscript /\ [][NextTranscript]_vars

---------------------------------------------------------------------------
(* Tabular extraction: parse_messages on a table *)

CellTwoTokens == <<"g", "g", " ", "Z", "i", "p", " ", "#", "9", " ", "|",
    " ", "0", ":", "3", "0", " ", "T", "a", "n", "g", "o", " ", "#", "1",
    "|", "1", ":", "0", "2">>

CellNoToken == <<"Z", "i", "p", "p", "e", "r", " ", "9", " ", "|", " ",
    "0", ":", "3", "0">>

CellAnaPadded == <<" ", "A", "n", "a", " ">>

\* The DATE text of an export: the calendar date, the time and the zone
CellExportDate == Day \o <<" ", "1", "0", ":", "0", "0", ":", "0", "0", " ",
    "U", "T", "C">>

\* A day the calendar does not have
CellNoSuchDay == <<"2", "0", "2", "4", "-", "0", "2", "-", "3", "0">>

\* A time of day without seconds
CellNoSeconds == Day \o <<" ", "1", "0", ":", "0", "0">>

CellSlashes == <<"2", "0", "2", "4", "/", "0", "1", "/", "0", "5">>

\* Half past eleven at night five hours behind UTC: the next day in UTC
CellBehindUtc == Day \o <<" ", "2", "3", ":", "3", "0", ":", "0", "0", "-",
    "0", "5", ":", "0", "0">>

\* A fraction of a second
CellFraction == Day \o <<"T", "1", "0", ":", "0", "0", ":", "0", "0", ".",
    "5", "Z">>

CellCompact == <<"2", "0", "2", "4", "0", "1", "0", "5">>

CellMonthName == <<"J", "a", "n", " ", "5", ",", " ", "2", "0", "2", "4">>

\* A form ToDate leaves undecided
CellDayFirst == <<"0", "5", ".", "0", "1", ".", "2", "0", "2", "4">>

\* The day before the first a nanosecond timestamp holds
CellTooEarly == <<"1", "6", "7", "7", "-", "0", "9", "-", "2", "0">>

\* Written past the last nanosecond timestamp, the instant in UTC before it
CellPastMax == <<"2", "2", "6", "2", "-", "0", "4", "-", "1", "2", " ", "0",
    "0", ":", "3", "0", ":", "0", "0", "+", "0", "1", ":", "0", "0">>

ColFrom == <<"F", "r", "o", "m">>

ColContent == <<"c", "o", "n", "t", "e", "n", "t">>

\* Column layouts: the export's, one in other letter case, one without
\* the content column, one without the date column
TableColumns == {<<FROM, CONTENT, DATE>>, <<ColFrom, ColContent, DATE>>,
                 <<FROM, DATE>>, <<FROM, CONTENT>>}

\* The rows, as <<sender, content, date>>: the contents with and without
\* tokens, the forms of date, and missing values
TableCells ==
    {<<CellAnaPadded, TokenZip, CellExportDate>>,
     <<Luis, CellTwoTokens, CellNoSuchDay>>,
     <<Luis, CellNoToken, CellExportDate>>,
     <<CellAnaPadded, TokenMidLine, CellNoSeconds>>,
     <<Luis, TokenZip, CellSlashes>>,
     <<Luis, TokenZip, CellBehindUtc>>,
     <<Luis, TokenZip, CellFraction>>,
     <<Luis, TokenZip, CellCompact>>,
     <<Luis, TokenZip, CellMonthName>>,
     <<Luis, TokenZip, CellDayFirst>>,
     <<Luis, TokenZip, CellTooEarly>>,
     <<Luis, TokenZip, CellPastMax>>,
     <<NaN, TokenZip, NaN>>,
     <<Luis, NaN, CellExportDate>>}

\* The cell of a row under a column
CellUnder(column, f, c, d) ==
    IF UpperStr(column) = FROM THEN f
    ELSE IF UpperStr(column) = CONTENT THEN c
    ELSE d

TableRows(columns) ==
    {[k \in 1..Len(columns) |-> CellUnder(columns[k], x[1], x[2], x[3])] :
        x \in TableCells}

InitTable ==
    /\ pc = "start"
    /\ \E columns \in TableColumns : \E n \in 0..MaxTableRows :
          \E rows \in SeqsOfLen(TableRows(columns), n) :
              df = [columns |-> columns, rows |-> rows]
    /\ parsed = Idle
    /\ csv_df = Idle
    /\ manual_df = Idle
    /\ results = Idle
    /\ my_name = Idle
    /\ contact = Idle
    /\ scores = Idle
    /\ text = Idle
    /\ speaker_markers = Idle
    /\ records = Idle
    /\ names_detected = FALSE
    /\ minutes = Idle
    /\ seconds = Idle
    /\ total = 0
    /\ shown = Idle

ParseMessages ==
    /\ pc = "start"
    /\ parsed' \in parse_messages(df)
    /\ pc' = "parsed"
    /\ UNCHANGED <<csv_df, manual_df, results, my_name, contact, scores, text,
                   speaker_markers, records, names_detected, df,
                   minutes, seconds, total, shown>>

NextTable == ParseMessages

SpecTable == InitTable /\ [][NextTable]_vars

---------------------------------------------------------------------------
(* Durations: to_seconds on the two digit groups of a token, then fmt_time *)

\* Minutes texts: each value up to the bound, plain and with a leading zero,
\* and two written with digits outside ASCII
MinuteTexts ==
    {IntStr(m) : m \in 0..MaxMinutes}
        \cup {<<"0">> \o IntStr(m) : m \in 0..MaxMinutes}
        \cup {<<"U+0663">>, <<"1", "U+FF15">>}

\* Seconds texts: every run of one or two digits (the grammar does not
\* range-check seconds)
SecondTexts == {<<a>> : a \in Digits} \cup {<<a, b>> : a \in Digits, b \in Digits}

InitTime ==
    /\ pc = "start"
    /\ minutes \in MinuteTexts
    /\ seconds \in SecondTexts
    /\ total = 0
    /\ shown = Idle
    /\ csv_df = Idle
    /\ manual_df = Idle
    /\ results = Idle
    /\ my_name = Idle
    /\ contact = Idle
    /\ scores = Idle
    /\ text = Idle
    /\ speaker_markers = Idle
    /\ records = Idle
    /\ names_detected = FALSE
    /\ df = Idle
    /\ parsed = Idle

ToSeconds ==
    /\ pc = "start"
    /\ total' = to_seconds(minutes, seconds)
    /\ pc' = "converted"
    /\ UNCHANGED <<csv_df, manual_df, results, my_name, contact, scores, text,
                   speaker_markers, records, names_detected, df, parsed,
                   minutes, seconds, shown>>

FmtTime ==
    /\ pc = "converted"
    /\ shown' = fmt_time(total)
    /\ pc' = "shown"
    /\ UNCHANGED <<csv_df, manual_df, results, my_name, contact, scores, text,
                   speaker_markers, records, names_detected, df, parsed,
                   minutes, seconds, total>>

NextTime == ToSeconds \/ FmtTime

SpecTime == InitTime /\ [][NextTime]_vars

---------------------------------------------------------------------------
(* The session of main().  Each action is one run of the script: the run   *)
(* a widget event starts, or the one st.rerun() asks for.  my_name and      *)
(* manual_df are the entries of st.session_state, df and text the contents  *)
(* of the two input widgets; the other variables are locals of the run and  *)
(* are Idle after a run that did not assign them.                           *)

\* Bound on the rows of the manual_results buffer in the sessions explored
MaxBufferRows == 4

\* st.session_state.my_name = None
None == <<"None">>

CONVERSATION_ID == <<"C", "O", "N", "V", "E", "R", "S", "A", "T", "I", "O",
    "N", " ", "I", "D">>

\* df.groupby(from_col)[convo_col].nunique() at one sender: the distinct
\* conversation ids of the sender's rows, missing values not counted
ConversationsOf(d, from_col, convo_col, sender) ==
    Cardinality({d.rows[k][convo_col] :
                    k \in {j \in 1..Len(d.rows) : d.rows[j][from_col] = sender}}
                \ {NaN})

\* The keys of df.groupby(from_col): the senders, a missing one left out
GroupKeys(d, from_col) == {d.rows[k][from_col] : k \in 1..Len(d.rows)} \ {NaN}

\* counts.idxmax(): the first of the largest counts, the senders being in
\* sorted order
IdxMax(d, from_col, convo_col, senders) ==
    LET best == {x \in senders :
                    \A y \in senders :
                        ConversationsOf(d, from_col, convo_col, y)
                            <= ConversationsOf(d, from_col, convo_col, x)}
    IN  CHOOSE x \in best : \A y \in best : y = x \/ StrLess(x, y)

\* detect_my_name_from_csv(df): <<name>>, or <<>> for None
detect_my_name_from_csv(d) ==
    IF \/ ColumnGet(d.columns, FROM) = 0
       \/ ColumnGet(d.columns, CONVERSATION_ID) = 0
    THEN <<>>
    ELSE IF GroupKeys(d, ColumnGet(d.columns, FROM)) = {} THEN <<>>
    ELSE <<IdxMax(d, ColumnGet(d.columns, FROM),
                  ColumnGet(d.columns, CONVERSATION_ID),
                  GroupKeys(d, ColumnGet(d.columns, FROM)))>>

\* A file is uploaded and none of FROM, CONTENT, DATE is missing
UploadAccepted(up) ==
    /\ up # <<>>
    /\ \A key \in {FROM, CONTENT, DATE} : ColumnGet(up[1].columns, key) # 0

\* st.session_state.my_name after the upload branch
IdentityAfterUpload(up, me) ==
    IF UploadAccepted(up) /\ me = None
    THEN LET detected == detect_my_name_from_csv(up[1])
         IN  IF detected # <<>> /\ detected[1] # <<>> THEN detected[1] ELSE me
    ELSE me

\* csv_results after the upload branch: the tables it can hold
CsvResults(up) == IF UploadAccepted(up) THEN parse_messages(up[1]) ELSE {<<>>}

\* next((s for s in speakers if s != my_name), None): <<s>>, or <<>> for None
OtherSpeaker(speakers, me) ==
    LET ks == {k \in 1..Len(speakers) : speakers[k] # me}
    IN  IF ks = {} THEN <<>>
        ELSE <<speakers[CHOOSE k \in ks : \A j \in ks : k <= j]>>

\* The branch the conversation tab takes
BranchOf(speakers, me) ==
    IF speakers = <<>> THEN "nospeakers"
    ELSE IF me = None THEN "identity"
    ELSE IF OtherSpeaker(speakers, me) = <<>> THEN "nocontact"
    ELSE "buttons"

ConvoBranch(t, me) ==
    IF Strip(t) = <<>> THEN "blank" ELSE BranchOf(detect_speakers(t), me)

\* name.split() is empty, so name.split()[0] raises IndexError
NoFirstName(name) == Strip(name) = <<>>

\* results["sender"].unique()
SendersOf(rows) == {rows[k].sender : k \in 1..Len(rows)}

\* The contacts offered by the selector
Contacts(rows, me) == SendersOf(rows) \ {me}

\* What the run scores: nothing when the results are empty, the user is not
\* among the senders or there is no contact; otherwise, for the contact the
\* selector holds, compute_scores, or nothing when that contact is ""
Scoreboard(rows, me) ==
    IF rows = <<>> \/ me \notin SendersOf(rows) THEN <<>>
    ELSE [c \in Contacts(rows, me) |->
             IF c = <<>> THEN <<>> ELSE compute_scores(rows, me, c)]

NothingScored == [results |-> Idle, scores |-> Idle]

\* The end of the run, from "Merge all sources" on: the results and scores
\* it can compute
MergeAndScore(csv, manual, me) ==
    IF me = None \/ NoFirstName(me) THEN {NothingScored}
    ELSE {[results |-> r, scores |-> Scoreboard(r, me)] :
             r \in merge_results(csv, manual)}

\* The local contact of main() when the conversation tab is done: not
\* assigned, or next(...) with the identity known, None when nobody else
\* speaks
ContactAmong(speakers, other) ==
    IF speakers = <<>> THEN Idle
    ELSE IF other = <<>> THEN None
    ELSE other[1]

ContactOf(speakers, me) == ContactAmong(speakers, OtherSpeaker(speakers, me))

ContactInTab(t, me) ==
    IF Strip(t) = <<>> \/ me = None THEN Idle
    ELSE ContactOf(detect_speakers(t), me)

\* The local contact of main() when a run that went on to the merge ends:
\* the value of the selector when the run reaches it, whichever of the
\* contacts offered it holds, otherwise the value the tab left
ContactsAtEnd(sc, before) == IF DOMAIN sc = {} THEN {before} ELSE DOMAIN sc

HeaderBlank == <<" ", " ", " ", "8", ":", "4", "5">>

CellZipOneSlow == <<"Z", "i", "p", " ", "#", "1", " ", "|", " ", "1", ":",
    "0", "2">>

ConversationOne == <<"c", "1">>

ConversationTwo == <<"c", "2">>

\* The conversations pasted
SessionTexts ==
    {JoinLines(<<HeaderAna, TokenIndented, HeaderLuis, TokenIndented>>),
     JoinLines(<<HeaderAna, TokenIndented, HeaderLuis>>),
     JoinLines(<<HeaderAna, HeaderLuis>>),
     JoinLines(<<HeaderAna, TokenZip>>),
     JoinLines(<<HeaderBlank, TokenZip>>),
     TokenZip}

ConversationThree == <<"c", "3">>

\* The files uploaded: an export in which Ana writes in two conversations,
\* Luis reports a result and four rows have an empty cell (a sender missing
\* in three conversations, a conversation id missing), a table without the
\* DATE column, and a table without conversation ids
SessionUploads ==
    {[columns |-> <<CONVERSATION_ID, FROM, DATE, CONTENT>>,
      rows |-> << <<ConversationOne, Luis, CellExportDate, TokenIndented>>,
                  <<ConversationOne, Ana, CellExportDate, CellNoToken>>,
                  <<ConversationTwo, Ana, CellExportDate, CellNoToken>>,
                  <<ConversationOne, NaN, CellExportDate, NaN>>,
                  <<ConversationTwo, NaN, CellExportDate, NaN>>,
                  <<ConversationThree, NaN, CellExportDate, NaN>>,
                  <<NaN, Luis, CellExportDate, CellNoToken>> >>],
     [columns |-> <<FROM, CONTENT>>,
      rows |-> << <<Luis, TokenZip>> >>],
     [columns |-> <<FROM, DATE, CONTENT>>,
      rows |-> << <<Ana, CellBehindUtc, CellZipOneSlow>> >>]}

\* The state after the first run, with nothing uploaded or pasted
InitSession ==
    /\ pc = "rendered"
    /\ my_name = None
    /\ manual_df = <<>>
    /\ df = <<>>
    /\ text = <<>>
    /\ csv_df = <<>>
    /\ results = Idle
    /\ scores = Idle
    /\ contact = Idle
    /\ speaker_markers = Idle
    /\ records = Idle
    /\ names_detected = FALSE
    /\ parsed = Idle
    /\ minutes = Idle
    /\ seconds = Idle
    /\ total = 0
    /\ shown = Idle

\* What a run in which no button is pressed does with up uploaded, but for
\* the local contact.  The pasted text changes nothing in it: the one
\* statement of the conversation tab that can end such a run,
\* my_name.split()[0] in the "only you were detected" warning, raises
\* exactly when the same expression raises before the merge
Rendered(up) ==
    /\ my_name' = IdentityAfterUpload(up, my_name)
    /\ csv_df' \in CsvResults(up)
    /\ \E out \in MergeAndScore(csv_df', manual_df, my_name') :
          /\ results' = out.results
          /\ scores' = out.scores
    /\ pc' = "rendered"
    /\ speaker_markers' = Idle
    /\ records' = Idle
    /\ names_detected' = FALSE
    /\ UNCHANGED <<manual_df, parsed, minutes, seconds, total, shown>>

\* The local contact such a run leaves with t pasted
ContactLeft(t) ==
    contact' \in ContactsAtEnd(scores', ContactInTab(t, my_name'))

\* A run in which no button is pressed, with up uploaded and t pasted
RenderRun(up, t) == Rendered(up) /\ ContactLeft(t)

\* The file uploader changes
Upload ==
    /\ \E up \in {<<>>} \cup {<<d>> : d \in SessionUploads} :
          /\ up # df
          /\ df' = up
          /\ RenderRun(up, text)
    /\ UNCHANGED text

\* The text area changes
Paste ==
    /\ Rendered(df)
    /\ \E t \in SessionTexts :
          /\ t # text
          /\ text' = t
          /\ ContactLeft(t)
    /\ UNCHANGED df

\* The run st.rerun() asks for, or any run that changes neither input
Rerun ==
    /\ RenderRun(df, text)
    /\ UNCHANGED <<df, text>>

\* The "Change" button of the identity banner
Change ==
    /\ my_name # None /\ my_name # <<>>
    /\ my_name' = None
    /\ manual_df' = <<>>
    /\ pc' = "changed"
    /\ csv_df' = Idle
    /\ results' = Idle
    /\ scores' = Idle
    /\ contact' = Idle
    /\ speaker_markers' = Idle
    /\ records' = Idle
    /\ names_detected' = FALSE
    /\ UNCHANGED <<df, text, parsed, minutes, seconds, total, shown>>

\* One of the two "which one are you?" buttons
IAm ==
    /\ IdentityAfterUpload(df, my_name) = None
    /\ ConvoBranch(text, None) = "identity"
    /\ \E i \in 1..Len(detect_speakers(text)) :
          /\ i <= 2
          /\ my_name' = detect_speakers(text)[i]
    /\ csv_df' \in CsvResults(df)
    /\ pc' = "identified"
    /\ results' = Idle
    /\ scores' = Idle
    /\ contact' = Idle
    /\ speaker_markers' = Idle
    /\ records' = Idle
    /\ names_detected' = FALSE
    /\ UNCHANGED <<manual_df, df, text, parsed, minutes, seconds, total,
                   shown>>

\* What "Process & Add" keeps of parse_conversation's output
Processed(out) ==
    /\ speaker_markers' = out.speaker_markers
    /\ records' = out.records
    /\ names_detected' = out.names_detected

\* The "Process & Add" button: with records the buffer grows and the run
\* ends (st.rerun(), or IndexError in the message when a name has no first
\* word) with the contact the tab found; without records the run goes on to
\* merge and score, and the selector may assign contact again.  The code
\* puts no limit on the buffer; the sessions explored are those in which it
\* never holds more than MaxBufferRows rows
ProcessAndAdd ==
    /\ my_name' = IdentityAfterUpload(df, my_name)
    /\ csv_df' \in CsvResults(df)
    /\ ConvoBranch(text, my_name') = "buttons"
    /\ \E found \in {ContactInTab(text, my_name')} :
          /\ Processed(parse_conversation(text, my_name', found))
          /\ Len(manual_df) + Len(records') <= MaxBufferRows
          /\ IF records' # <<>>
             THEN /\ manual_df' = manual_df \o records'
                  /\ results' = Idle
                  /\ scores' = Idle
                  /\ contact' = found
             ELSE /\ manual_df' = manual_df
                  /\ \E fin \in MergeAndScore(csv_df', manual_df, my_name') :
                        /\ results' = fin.results
                        /\ scores' = fin.scores
                        /\ contact' \in ContactsAtEnd(fin.scores, found)
    /\ pc' = "added"
    /\ UNCHANGED <<df, text, parsed, minutes, seconds, total, shown>>

\* The "Clear all" button
ClearAll ==
    /\ my_name' = IdentityAfterUpload(df, my_name)
    /\ ConvoBranch(text, my_name') = "buttons"
    /\ csv_df' \in CsvResults(df)
    /\ manual_df' = <<>>
    /\ pc' = "cleared"
    /\ results' = Idle
    /\ scores' = Idle
    /\ contact' = ContactInTab(text, my_name')
    /\ speaker_markers' = Idle
    /\ records' = Idle
    /\ names_detected' = FALSE
    /\ UNCHANGED <<df, text, parsed, minutes, seconds, total, shown>>

NextSession ==
    Upload \/ Paste \/ Rerun \/ Change \/ IAm \/ ProcessAndAdd \/ ClearAll

SpecSession == InitSession /\ [][NextSession]_vars

---------------------------------------------------------------------------
(* Properties of parse_conversation *)

\* The token occurrences of the text, left to right
Tokens == GameReFinditer(text)

HasMarkerBefore(pos) ==
    \E k \in 1..Len(speaker_markers) : speaker_markers[k].pos < pos

\* The tokens that at least one marker precedes
Attributable == SelectSeq(Tokens, LAMBDA m : HasMarkerBefore(m.start))

\* The greatest marker offset below pos
NearestMarkerPos(pos) ==
    LET ps == {speaker_markers[k].pos :
                  k \in {j \in 1..Len(speaker_markers) : speaker_markers[j].pos < pos}}
    IN  CHOOSE x \in ps : \A y \in ps : y <= x

\* The speakers of the markers at that offset
NearestSpeakers(pos) ==
    {speaker_markers[k].name :
        k \in {j \in 1..Len(speaker_markers) :
                 speaker_markers[j].pos = NearestMarkerPos(pos)}}

\* C4 (as claimed): every token that some marker precedes yields exactly one
\* record, whose sender is the speaker of the marker with the greatest offset
\* below the token's start, and a token no marker precedes yields none; the
\* records keep the tokens' order and have a null date.
C4_TranscriptAttribution ==
    pc = "parsed" =>
        /\ Len(records) = Len(Attributable)
        /\ \A k \in 1..Len(records) :
              LET m == Attributable[k]
              IN  /\ records[k].sender \in NearestSpeakers(m.start)
                  /\ records[k].date = NoDate
                  /\ records[k].game = CanonicalGame(m.g1)
                  /\ records[k].puzzle_num = ParseInt(m.g2)
                  /\ records[k].time_sec = to_seconds(m.g3, m.g4)

\* The text has, at line start i, exactly this name and then whitespace
ExactHeaderAt(i, name) ==
    /\ i = 1 \/ text[i - 1] = "\n"
    /\ i + Len(name) - 1 <= Len(text)
    /\ SubSeq(text, i, i + Len(name) - 1) = name
    /\ CharAt(text, i + Len(name)) \in Whitespace

\* The participant whose header the line at i is: the one whose full name
\* starts the line, the longer name when one is a prefix of the other
HeaderAuthors(i) ==
    {n \in {my_name, contact} :
        /\ ExactHeaderAt(i, n)
        /\ \A o \in {my_name, contact} : ExactHeaderAt(i, o) => Len(o) <= Len(n)}

\* C5 (as claimed): with two distinct names, a line that begins with one
\* participant's full name and whitespace gets a marker for that participant
\* only, so every record's sender is the participant who wrote the nearest
\* preceding header line.
C5_NoSpuriousMarkers ==
    (pc = "parsed" /\ my_name # contact) =>
        /\ \A k \in 1..Len(speaker_markers) :
              HeaderAuthors(speaker_markers[k].pos) # {} =>
                  speaker_markers[k].name \in HeaderAuthors(speaker_markers[k].pos)
        /\ Len(records) = Len(Attributable) =>
              \A k \in 1..Len(records) :
                  LET at == NearestMarkerPos(Attributable[k].start)
                  IN  HeaderAuthors(at) # {} => records[k].sender \in HeaderAuthors(at)

---------------------------------------------------------------------------
(* Properties of parse_messages *)

ContentColumns == {k \in 1..Len(df.columns) : UpperStr(df.columns[k]) = CONTENT}

\* The content of a row, empty when the table has no content column
ContentOf(row) ==
    IF ContentColumns = {} THEN <<>>
    ELSE CellStr(row[CHOOSE k \in ContentColumns : TRUE])

\* The offsets of a text at which a token starts
TokenStarts(t) == {i \in 1..Len(t) : GameReAt(t, i) # <<>>}

\* The leftmost token of a text that has one
LeftmostToken(t) ==
    GameReAt(t, CHOOSE i \in TokenStarts(t) : \A j \in TokenStarts(t) : i <= j)[1]

\* C9: the output has, in row order, one record for each row whose content
\* holds a token and none for the other rows, each built from the leftmost
\* token of its row; it is never longer than the table, and it is empty for
\* a table without a content column.
C9_TabularExtraction ==
    pc = "parsed" =>
        LET kept == SelectSeq(df.rows, LAMBDA r : TokenStarts(ContentOf(r)) # {})
        IN  /\ Len(parsed) = Len(kept)
            /\ Len(parsed) <= Len(df.rows)
            /\ ContentColumns = {} => parsed = <<>>
            /\ \A k \in 1..Len(parsed) :
                  LET m == LeftmostToken(ContentOf(kept[k]))
                  IN  /\ parsed[k].game = CanonicalGame(m.g1)
                      /\ parsed[k].puzzle_num = ParseInt(m.g2)
                      /\ parsed[k].time_sec = to_seconds(m.g3, m.g4)

\* C9 witness: a table with a content column whose first row has no token
\* and whose second row has two tokens after other text gave one record,
\* built from the first of the two tokens.
C9_Witness ==
    /\ pc = "parsed"
    /\ ContentColumns # {}
    /\ Len(df.rows) = 2
    /\ ContentOf(df.rows[1]) = CellNoToken
    /\ ContentOf(df.rows[2]) = CellTwoTokens
    /\ Len(parsed) = 1
    /\ parsed[1].game = Zip
    /\ parsed[1].puzzle_num = 9

---------------------------------------------------------------------------
(* Properties of to_seconds / fmt_time *)

\* C8: for minutes m >= 0 and seconds 0 <= s < 60, the formatted duration of
\* to_seconds(m, s) is m in decimal without padding, a colon, and s as
\* exactly two digits; 125 seconds is shown as 2:05.
C8_DurationRoundTrip ==
    (pc = "shown" /\ ParseInt(seconds) < 60) =>
        LET n == Len(shown)
        IN  /\ n >= 4
            /\ shown[n - 2] = ":"
            /\ \A i \in (1..n) \ {n - 2} : shown[i] \in AsciiDigits
            /\ n - 3 = 1 \/ shown[1] # "0"
            /\ ParseInt(SubSeq(shown, 1, n - 3)) = ParseInt(minutes)
            /\ ParseInt(SubSeq(shown, n - 1, n)) = ParseInt(seconds)
            /\ total = 125 => shown = <<"2", ":", "0", "5">>

\* C8 witness: 2 minutes and 5 seconds, 125 seconds, were formatted.
C8_Witness ==
    /\ pc = "shown"
    /\ ParseInt(minutes) = 2
    /\ ParseInt(seconds) = 5
    /\ total = 125

---------------------------------------------------------------------------
(* Properties of the session *)

\* Every row of recs occurs in buf
AlreadyBuffered(recs, buf) ==
    \A k \in 1..Len(recs) : \E j \in 1..Len(buf) : buf[j] = recs[k]

\* The rows as a set of (sender, game, puzzle_num, time_sec) tuples
ResultTuples(rows) ==
    {<<rows[k].sender, rows[k].game, rows[k].puzzle_num, rows[k].time_sec>> :
        k \in 1..Len(rows)}

\* The merged result sets a run can score with this buffer
MergedTuples(csv, manual) ==
    {ResultTuples(r) : r \in merge_results(csv, manual)}

\* The scores a run can show with this buffer
ScoresShown(csv, manual, me) ==
    {out.scores : out \in MergeAndScore(csv, manual, me)}

\* C11: a "Process & Add" of a transcript whose records are all in the
\* manual_results buffer already appends them to the buffer once more, and
\* leaves the merged results unchanged as a set of (sender, game, puzzle_num,
\* time_sec) tuples and every score counter and duel unchanged.
C11_ResubmissionHarmless ==
    [][(pc' = "added" /\ AlreadyBuffered(records', manual_df))
          => /\ manual_df' = manual_df \o records'
             /\ MergedTuples(csv_df', manual_df')
                    = MergedTuples(csv_df', manual_df)
             /\ ScoresShown(csv_df', manual_df', my_name')
                    = ScoresShown(csv_df', manual_df, my_name')]_vars

\* A transcript with two records was added a second time and a duel is
\* scored
C11_Witness ==
    LET n == Len(records)
        m == Len(manual_df)
    IN  /\ pc = "added"
        /\ n >= 2
        /\ m >= n + n
        /\ SubSeq(manual_df, m - n + 1, m) = records
        /\ AlreadyBuffered(records, SubSeq(manual_df, 1, m - n))
        /\ \E sc \in ScoresShown(csv_df, manual_df, my_name) :
              \E c \in DOMAIN sc : \E g \in GameSet :
                  sc[c] # <<>> /\ sc[c][g].duels # <<>>

=============================================================================
